---------------------------- MODULE Spec2Model ----------------------------
(***************************************************************************)
(* Model of alltz's TimelineWidget (src/ui/timeline.rs): the mapping       *)
(* between instants and columns of the 48-hour timeline, the hourly scan   *)
(* for DST transitions, the placement of labels and the render passes.     *)
(*                                                                         *)
(* Instants are whole seconds since the Unix epoch (DateTime<Utc> with a   *)
(* zero sub-second part).  Styles and colours are left out: a buffer cell  *)
(* holds its glyph only.  The f64 arithmetic of time_to_position and       *)
(* get_timeline_display is modelled bit for bit (53-bit significands,      *)
(* round to nearest even), since it decides the column at exact ties.      *)
(***************************************************************************)
EXTENDS Integers, Sequences, FiniteSets, TLC

VARIABLES
    widget,        \* the TimelineWidget's fields
    width,         \* the width handed to time_to_position / get_timeline_display
    display,       \* get_timeline_display's result (<<>> before the call)
    pos_prev,      \* the time_to_position call before the last one
    pos_last,      \* the last time_to_position call: [time, pos]
    scan,          \* get_dst_transitions_in_range: "idle" | "done"
    transitions,   \* its result vector
    label,         \* the last label placement: [c, len, w, start, cells]
    area,          \* the Rect handed to render
    pc,            \* render's position: the next pass
    buf,           \* the buffer: cell -> glyph, over the cells of area
    painted,       \* the cells each pass has written: {[pass, x, y]}
    current_date,  \* the date loop's variable (a day number)
    day_iters,     \* iterations of the date loop so far
    labelled       \* the days whose date label was painted: {[day, utc]}

vars == <<widget, width, display, pos_prev, pos_last, scan,
          transitions, label, area, pc, buf, painted, current_date,
          day_iters, labelled>>

(***************************************************************************)
(* Units                                                                   *)
(***************************************************************************)
HourSecs == 60 * 60
DaySecs == 24 * HourSecs
WindowHalfHours == 24
TotalHours == 48
MinutesPerHour == 60
U16Max == 65535
F64Bits == 53

Min(a, b) == IF a <= b THEN a ELSE b

\* u16::saturating_sub
SatSub(a, b) == IF a >= b THEN a - b ELSE 0

(***************************************************************************)
(* f64: a positive double is [m, e], m its 53 significand bits (most       *)
(* significant first, m[1] = 1) and its value ToInt(m) * 2^e.  Zero is     *)
(* [m |-> <<>>, e |-> 0].  Bits are handled 13 at a time, which keeps      *)
(* every intermediate integer below 2^31.                                  *)
(***************************************************************************)
LimbBits == 13
Limb == 2 ^ LimbBits
DivLimbs == 6

\* The value of a bit sequence of at most 30 bits.
RECURSIVE ToInt(_)
ToInt(bits) ==
    IF Len(bits) = 0 THEN 0
    ELSE IF Len(bits) = 1 THEN bits[1]
    ELSE LET h == Len(bits) \div 2
         IN  ToInt(SubSeq(bits, 1, h)) * 2 ^ (Len(bits) - h)
                + ToInt(SubSeq(bits, h + 1, Len(bits)))

\* n as exactly L bits, and as the bits of its binary numeral (none for 0).
Bits(n, L) == [j \in 1..L |-> (n \div 2 ^ (L - j)) % 2]
BitLen(n) == CHOOSE L \in 0..30 : n < 2 ^ L /\ (L = 0 \/ n >= 2 ^ (L - 1))
BinOf(n) == Bits(n, BitLen(n))

F64Zero == [m |-> <<>>, e |-> 0]

\* The significand plus one unit in the last place; a carry out of the top
\* bit renormalises to 100...0 with the exponent raised.
F64Inc(x) ==
    LET zs == {i \in 1..Len(x.m) : x.m[i] = 0}
    IN  IF zs = {}
        THEN [m |-> [i \in 1..Len(x.m) |-> IF i = 1 THEN 1 ELSE 0], e |-> x.e + 1]
        ELSE LET j == CHOOSE i \in zs : \A k \in zs : k <= i
             IN  [m |-> [i \in 1..Len(x.m) |->
                            IF i < j THEN x.m[i] ELSE IF i = j THEN 1 ELSE 0],
                  e |-> x.e]

\* Round to nearest, ties to even: the double nearest to ToInt(bits) * 2^e
\* (plus a nonzero part below the last bit when sticky), for bits not all 0.
F64Nearest(bits, e, sticky) ==
    LET L     == Len(bits)
        first == CHOOSE i \in 1..L : bits[i] = 1 /\ \A k \in 1..(i - 1) : bits[k] = 0
        last  == first + F64Bits - 1
    IN  IF last >= L
        THEN [m |-> [i \in 1..F64Bits |->
                        IF first + i - 1 <= L THEN bits[first + i - 1] ELSE 0],
              e |-> e - (last - L)]
        ELSE LET kept == [m |-> SubSeq(bits, first, last), e |-> e + (L - last)]
                 rest == sticky \/ \E j \in (last + 2)..L : bits[j] = 1
             IN  IF bits[last + 1] = 1 /\ (rest \/ bits[last] = 1)
                 THEN F64Inc(kept) ELSE kept

\* Long division in base 2^13: the next n digits of r / d (r < d < 2^18) as
\* bits, and the remainder left after them.
RECURSIVE DivDigits(_, _, _)
DivDigits(r, d, n) ==
    IF n = 0 THEN <<>>
    ELSE Bits((r * Limb) \div d, LimbBits) \o DivDigits((r * Limb) % d, d, n - 1)
RECURSIVE DivRem(_, _, _)
DivRem(r, d, n) == IF n = 0 THEN r ELSE DivRem((r * Limb) % d, d, n - 1)

\* (a as f64) / (b as f64) for integers 0 <= a < 2^30, 0 < b < 2^18:
\* correctly rounded.
F64Div(a, b) ==
    IF a = 0 THEN F64Zero
    ELSE F64Nearest(BinOf(a \div b) \o DivDigits(a % b, b, DivLimbs),
                    -(DivLimbs * LimbBits), DivRem(a % b, b, DivLimbs) # 0)

\* The exact product of a bit sequence and an integer w < 2^16, as bits.
RECURSIVE MulBits(_, _, _)
MulBits(bits, w, carry) ==
    IF Len(bits) = 0 THEN BinOf(carry)
    ELSE LET n  == Len(bits)
             k  == IF n < LimbBits THEN n ELSE LimbBits
             t  == ToInt(SubSeq(bits, n - k + 1, n)) * w + carry
         IN  MulBits(SubSeq(bits, 1, n - k), w, t \div 2 ^ k) \o Bits(t % 2 ^ k, k)

\* x * (w as f64) for an integer 0 <= w < 2^16: the exact product, rounded.
F64MulInt(x, w) ==
    IF Len(x.m) = 0 \/ w = 0 THEN F64Zero
    ELSE F64Nearest(MulBits(x.m, w, 0), x.e, FALSE)

\* x as i64 (truncation) for 0 <= x < 2^30
F64Trunc(x) ==
    IF Len(x.m) = 0 \/ -x.e >= F64Bits THEN 0
    ELSE IF x.e >= 0 THEN ToInt(x.m) * 2 ^ x.e
    ELSE ToInt(SubSeq(x.m, 1, F64Bits + x.e))

\* f64::round (half away from zero) for 0 <= x < 2^30
F64Round(x) ==
    IF Len(x.m) = 0 \/ -x.e > F64Bits THEN 0
    ELSE IF x.e >= 0 THEN ToInt(x.m) * 2 ^ x.e
    ELSE ToInt(SubSeq(x.m, 1, F64Bits + x.e)) + x.m[F64Bits + x.e + 1]

(***************************************************************************)
(* The window and time_to_position                                         *)
(***************************************************************************)
\* Mutant: a window that follows the clock instead of the scrub position.
get_timeline_start_from_now(w) == w.current_time - WindowHalfHours * HourSecs

get_timeline_start(w) == w.timeline_position - WindowHalfHours * HourSecs

get_timeline_end(w) == w.timeline_position + WindowHalfHours * HourSecs

\* Mutant: the cast without the round().
TruncatedPosition(time_secs, total_secs, wd) ==
    IF time_secs <= 0 THEN 0
    ELSE Min(U16Max, F64Trunc(F64MulInt(F64Div(time_secs, total_secs), wd)))

\* (ratio * width).round() as u16: the cast saturates, a negative ratio to 0.
RoundedPosition(time_secs, total_secs, wd) ==
    IF time_secs <= 0 THEN 0
    ELSE Min(U16Max, F64Round(F64MulInt(F64Div(time_secs, total_secs), wd)))

time_to_position(w, time, wd) ==
    LET start == get_timeline_start(w)
        end   == get_timeline_end(w)
        total_duration == end - start
        time_duration  == time - start
    IN  IF total_duration = 0 THEN 0
        ELSE Min(RoundedPosition(time_duration, total_duration, wd), SatSub(wd, 1))

(***************************************************************************)
(* Timezones: the zone's UTC offset (local minus UTC, seconds) as a        *)
(* function of the instant.  The rules are those of the IANA database for  *)
(* the periods the inputs lie in: New York and Lord Howe in 2024, Apia     *)
(* around its skipped day (30 Dec 2011).                                   *)
(***************************************************************************)
Zones == {"UTC", "Asia/Kolkata", "America/New_York", "Australia/Lord_Howe",
          "Pacific/Apia"}

ZoneBase(z) ==
    CASE z = "UTC" -> 0
      [] z = "Asia/Kolkata" -> 19800
      [] z = "America/New_York" -> -18000
      [] z = "Australia/Lord_Howe" -> 39600
      [] z = "Pacific/Apia" -> -36000

\* The offset changes of the zone, in order: at instant `at` the offset becomes `off`.
ZoneChanges(z) ==
    CASE z = "America/New_York" ->
            << [at |-> 1710054000, off |-> -14400],     \* 2024-03-10T07:00Z
               [at |-> 1730613600, off |-> -18000] >>   \* 2024-11-03T06:00Z
      [] z = "Australia/Lord_Howe" ->
            << [at |-> 1712415600, off |-> 37800],      \* 2024-04-06T15:00Z
               [at |-> 1728142200, off |-> 39600] >>    \* 2024-10-05T15:30Z
      [] z = "Pacific/Apia" ->
            << [at |-> 1325239200, off |-> 50400] >>    \* 2011-12-30T10:00Z
      [] OTHER -> << >>

\* utc_time.with_timezone(&tz).offset().fix().local_minus_utc()
TzOffset(z, t) ==
    LET past == {i \in 1..Len(ZoneChanges(z)) : ZoneChanges(z)[i].at <= t}
    IN  IF past = {} THEN ZoneBase(z)
        ELSE ZoneChanges(z)[CHOOSE i \in past : \A j \in past : j <= i].off

\* The local wall clock (seconds) of an instant, and its hour and date.
LocalSecs(z, t) == t + TzOffset(z, t)
LocalHour(z, t) == (LocalSecs(z, t) % DaySecs) \div HourSecs
date_naive(z, t) == LocalSecs(z, t) \div DaySecs

\* tz.from_local_datetime(local): the instants whose wall clock reads `local`
\* (one: single; none: in a gap; two: ambiguous).
from_local_datetime(z, local) ==
    LET offs == {ZoneBase(z)} \cup {ZoneChanges(z)[i].off : i \in 1..Len(ZoneChanges(z))}
    IN  {local - o : o \in {o2 \in offs : TzOffset(z, local - o2) = o2}}

(***************************************************************************)
(* DST transitions                                                         *)
(***************************************************************************)
\* Mutant: only an increase of the offset is reported.
detect_offset_increase_only(w, utc_time) ==
    IF TzOffset(w.timezone, utc_time + HourSecs) > TzOffset(w.timezone, utc_time)
    THEN "FallBack" ELSE "None"

detect_dst_transition(w, utc_time) ==
    LET offset_before == TzOffset(w.timezone, utc_time)
        one_hour_later == utc_time + HourSecs
        offset_after == TzOffset(w.timezone, one_hour_later)
    IN  IF offset_after > offset_before THEN "FallBack"
        ELSE IF offset_after < offset_before THEN "SpringForward"
        ELSE "None"

\* Mutant: the loop runs while current <= end.
RECURSIVE ScanThrough(_, _, _, _)
ScanThrough(w, cur, end, acc) ==
    IF cur <= end
    THEN ScanThrough(w, cur + HourSecs, end,
                     IF detect_dst_transition(w, cur) # "None"
                     THEN Append(acc, [time |-> cur, kind |-> detect_dst_transition(w, cur)])
                     ELSE acc)
    ELSE acc

\* The loop of get_dst_transitions_in_range from `cur` on.
RECURSIVE ScanFrom(_, _, _, _)
ScanFrom(w, cur, end, acc) ==
    IF cur < end
    THEN ScanFrom(w, cur + HourSecs, end,
                  IF detect_dst_transition(w, cur) # "None"
                  THEN Append(acc, [time |-> cur, kind |-> detect_dst_transition(w, cur)])
                  ELSE acc)
    ELSE acc

get_dst_transitions_in_range(w) ==
    ScanFrom(w, get_timeline_start(w), get_timeline_end(w), <<>>)

(***************************************************************************)
(* Activity of an hour (crate::config::TimeDisplayConfig)                  *)
(***************************************************************************)
get_time_activity(cfg, hour) ==
    IF hour >= cfg.work_hours_start /\ hour < cfg.work_hours_end THEN "Work"
    ELSE IF hour >= cfg.awake_hours_start /\ hour < cfg.awake_hours_end THEN "Awake"
    ELSE "Night"

\* The glyphs are named: dark_shade is U+2593, medium_shade U+2592,
\* light_shade U+2591; below, now_line is U+2502, scrub_line U+2503,
\* spring_forward U+21C8 and fall_back U+21CA.
get_activity_char(activity) ==
    CASE activity = "Work" -> "dark_shade"
      [] activity = "Awake" -> "medium_shade"
      [] activity = "Night" -> "light_shade"

get_hour_display(w, hour) == get_activity_char(get_time_activity(w.time_config, hour))

(***************************************************************************)
(* get_timeline_display                                                    *)
(***************************************************************************)
\* (((i as f64 / width as f64) * 48.0) * 60.0) as i64
ColumnMinutes(i, wd) ==
    F64Trunc(F64MulInt(F64MulInt(F64Div(i, wd), TotalHours), MinutesPerHour))

\* time_at_position: the instant column i stands for
ColumnTime(w, i, wd) == get_timeline_start(w) + ColumnMinutes(i, wd) * MinutesPerHour

get_timeline_display(w, wd) ==
    [k \in 1..wd |-> get_hour_display(w, LocalHour(w.timezone, ColumnTime(w, k - 1, wd)))]

(***************************************************************************)
(* Construction (TimelineWidget::new) and the idle values of the locals    *)
(***************************************************************************)
DefaultConfig ==
    [work_hours_start |-> 8, work_hours_end |-> 18,
     awake_hours_start |-> 6, awake_hours_end |-> 22]

new(timeline_position, current_time, timezone, display_format, time_config, show_date, show_dst) ==
    [timeline_position |-> timeline_position, current_time |-> current_time,
     timezone |-> timezone, display_format |-> display_format,
     time_config |-> time_config, show_date |-> show_date, show_dst |-> show_dst]

NoCall == [time |-> -1, pos |-> -1]
NoLabel == [c |-> 0, len |-> 0, w |-> 0, start |-> 0, cells |-> {}]
NoArea == [x |-> 0, y |-> 0, width |-> 0, height |-> 0]

Idle ==
    /\ display = <<>>
    /\ pos_prev = NoCall /\ pos_last = NoCall
    /\ scan = "idle" /\ transitions = <<>>
    /\ label = NoLabel
    /\ area = NoArea /\ pc = "idle" /\ buf = <<>> /\ painted = {}
    /\ current_date = 0 /\ day_iters = 0 /\ labelled = {}

(***************************************************************************)
(* Calls of time_to_position                                               *)
(***************************************************************************)
MaxWidth == 8
ProbeCount == 8
ProbeStep == 26 * 960

Noon2024 == 1710054000 + 5 * HourSecs   \* 2024-03-10T12:00:00Z

PosWidths == 1..MaxWidth \cup {45, 100}

\* Instants before, inside, at the ends of and after the window.
ProbeTimes(w) ==
    {get_timeline_start(w) + k * ProbeStep : k \in -1..ProbeCount}
        \cup {w.timeline_position, get_timeline_end(w) - 1, get_timeline_end(w)}

TimeToPosition(t) ==
    /\ pos_prev' = pos_last
    /\ pos_last' = [time |-> t, pos |-> time_to_position(widget, t, width)]
    /\ UNCHANGED <<widget, width, display, scan, transitions, label,
                   area, pc, buf, painted, current_date, day_iters, labelled>>

InitPos ==
    /\ widget \in {new(tp, ct, "UTC", "TwentyFourHour", DefaultConfig, FALSE, FALSE) :
                      tp \in {Noon2024}, ct \in {Noon2024, Noon2024 + 5 * HourSecs}}
    /\ width \in PosWidths
    /\ Idle

NextPos == \E t \in ProbeTimes(widget) : TimeToPosition(t)

SpecPos == InitPos /\ [][NextPos]_vars

(***************************************************************************)
(* Calls of get_timeline_display                                           *)
(***************************************************************************)
DisplayWidths == 1..MaxWidth \cup {100, 1439, 1440, 2000}

GetTimelineDisplay ==
    /\ display = <<>>
    /\ display' = get_timeline_display(widget, width)
    /\ UNCHANGED <<widget, width, pos_prev, pos_last, scan, transitions,
                   label, area, pc, buf, painted, current_date, day_iters, labelled>>

InitDisplay ==
    /\ widget \in {new(tp, tp, z, "TwentyFourHour", DefaultConfig, FALSE, FALSE) :
                      tp \in {Noon2024, Noon2024 + 7 * HourSecs + 60},
                      z \in {"UTC", "Asia/Kolkata", "America/New_York"}}
    /\ width \in DisplayWidths
    /\ Idle

NextDisplay == GetTimelineDisplay

SpecDisplay == InitDisplay /\ [][NextDisplay]_vars

(***************************************************************************)
(* Calls of get_dst_transitions_in_range                                   *)
(***************************************************************************)
ScanSpan == 50
HalfHourSecs == 30 * 60

\* The instants the scan is tried around: each offset change of the zone,
\* or a noon for a zone without one.
Anchors(z) ==
    IF Len(ZoneChanges(z)) = 0 THEN {Noon2024}
    ELSE {ZoneChanges(z)[i].at : i \in 1..Len(ZoneChanges(z))}

\* Positions from 25 hours before an anchor to 25 hours after it, every half
\* hour, and one second to either side of each.
ScanPositions(z) ==
    {a + k * HalfHourSecs + j : a \in Anchors(z), k \in -ScanSpan..ScanSpan, j \in {-1, 0, 1}}

GetDstTransitionsInRange ==
    /\ scan = "idle"
    /\ transitions' = get_dst_transitions_in_range(widget)
    /\ scan' = "done"
    /\ UNCHANGED <<widget, width, display, pos_prev, pos_last, label, area, pc,
                   buf, painted, current_date, day_iters, labelled>>

InitScan ==
    /\ \E z \in Zones : \E tp \in ScanPositions(z) :
          widget = new(tp, tp, z, "TwentyFourHour", DefaultConfig, FALSE, TRUE)
    /\ width = 0
    /\ Idle

NextScan == GetDstTransitionsInRange

SpecScan == InitScan /\ [][NextScan]_vars

(***************************************************************************)
(* Label placement (the date label and the time caption)                   *)
(***************************************************************************)
\* Mutant: centred, without the cap at the right edge.
label_start_uncapped(c, len, w) == IF c >= len \div 2 THEN c - len \div 2 ELSE 0

\* The start column of a label of `len` characters centred on column c of a
\* track of w columns.
label_start(c, len, w) ==
    LET centred == IF c >= len \div 2 THEN c - len \div 2 ELSE 0
    IN  Min(centred, SatSub(w, len))

\* The characters written: index i (from 0) goes to column start + i of the
\* track, if that column is in the track.
label_cells(start, len, w) == {i \in 0..(len - 1) : start + i < w}

MaxTrack == 14
MaxLabel == 13

PlaceLabel(c, len, w) ==
    /\ label' = [c |-> c, len |-> len, w |-> w,
                 start |-> label_start(c, len, w),
                 cells |-> label_cells(label_start(c, len, w), len, w)]
    /\ UNCHANGED <<widget, width, display, pos_prev, pos_last, scan, transitions,
                   area, pc, buf, painted, current_date, day_iters, labelled>>

InitLabel ==
    /\ widget = new(Noon2024, Noon2024, "UTC", "TwentyFourHour", DefaultConfig,
                    TRUE, FALSE)
    /\ width = 0
    /\ Idle

NextLabel ==
    \E w \in 1..MaxTrack : \E c \in 0..(w - 1) : \E len \in 0..MaxLabel :
        PlaceLabel(c, len, w)

SpecLabel == InitLabel /\ [][NextLabel]_vars

(***************************************************************************)
(* Formatting (chrono's format("%d %b"), "%H:%M %a", "%I:%M %p %a")        *)
(***************************************************************************)
Digit(n) == <<"0", "1", "2", "3", "4", "5", "6", "7", "8", "9">>[n + 1]
TwoDigits(n) == <<Digit(n \div 10), Digit(n % 10)>>

MonthAbbr(m) ==
    << <<"J", "a", "n">>, <<"F", "e", "b">>, <<"M", "a", "r">>, <<"A", "p", "r">>,
       <<"M", "a", "y">>, <<"J", "u", "n">>, <<"J", "u", "l">>, <<"A", "u", "g">>,
       <<"S", "e", "p">>, <<"O", "c", "t">>, <<"N", "o", "v">>, <<"D", "e", "c">> >>[m]

\* Indexed by days since Thursday 1 January 1970, modulo 7.
WeekdayAbbr(day) ==
    << <<"T", "h", "u">>, <<"F", "r", "i">>, <<"S", "a", "t">>, <<"S", "u", "n">>,
       <<"M", "o", "n">>, <<"T", "u", "e">>, <<"W", "e", "d">> >>[(day % 7) + 1]

\* The month and the day of the month of a day number (days since the epoch),
\* in the proleptic Gregorian calendar.
Civil(day) ==
    LET z   == day + 719468
        era == z \div 146097
        doe == z - era * 146097
        yoe == (doe - doe \div 1460 + doe \div 36524 - doe \div 146096) \div 365
        doy == doe - (365 * yoe + yoe \div 4 - yoe \div 100)
        mp  == (5 * doy + 2) \div 153
    IN  [day |-> doy - (153 * mp + 2) \div 5 + 1,
         month |-> IF mp < 10 THEN mp + 3 ELSE mp - 9]

\* current_date.format("%d %b"), e.g. "15 Jul"
DateStr(day) == TwoDigits(Civil(day).day) \o <<" ">> \o MonthAbbr(Civil(day).month)

\* zone_time.format(..) of a local wall clock: "13:05 Mon" or "01:05 PM Mon"
TimeStr(format, local) ==
    LET hour   == (local % DaySecs) \div HourSecs
        minute == (local % HourSecs) \div MinutesPerHour
        hour12 == IF hour % 12 = 0 THEN 12 ELSE hour % 12
        day    == WeekdayAbbr(local \div DaySecs)
    IN  IF format = "TwentyFourHour"
        THEN TwoDigits(hour) \o <<":">> \o TwoDigits(minute) \o <<" ">> \o day
        ELSE TwoDigits(hour12) \o <<":">> \o TwoDigits(minute) \o <<" ">>
                \o (IF hour < 12 THEN <<"A", "M">> ELSE <<"P", "M">>) \o <<" ">> \o day

(***************************************************************************)
(* render                                                                  *)
(***************************************************************************)
\* Rect::inner(Margin { horizontal: 1, vertical: 1 })
inner(a) ==
    IF a.width < 2 \/ a.height < 2 THEN NoArea
    ELSE [x |-> a.x + 1, y |-> a.y + 1, width |-> a.width - 2, height |-> a.height - 2]

CellsOf(a) ==
    {<<x, y>> : x \in a.x..(a.x + a.width - 1), y \in a.y..(a.y + a.height - 1)}

\* The cells Block::default().borders(Borders::ALL) draws on (title included).
BorderCells(a) ==
    {c \in CellsOf(a) : \/ c[1] = a.x \/ c[1] = a.x + a.width - 1
                        \/ c[2] = a.y \/ c[2] = a.y + a.height - 1}

\* buf[(x, y)].set_char(ch) for every cell of `writes`
Paint(b, writes) == [c \in DOMAIN b |-> IF c \in DOMAIN writes THEN writes[c] ELSE b[c]]

Log(pass, cells) == {[pass |-> pass, x |-> c[1], y |-> c[2]] : c \in cells}

\* The cells of a label written on row y of the inner rectangle, with their glyphs.
LabelWrites(inn, y, str, anchor) ==
    LET start == label_start(anchor, Len(str), inn.width)
    IN  [c \in {<<inn.x + start + i, y>> : i \in label_cells(start, Len(str), inn.width)}
            |-> str[c[1] - inn.x - start + 1]]

NotRender == <<widget, width, display, pos_prev, pos_last, scan, transitions, label>>

\* The early return on a narrow area, else the bordered block.
RenderFrame ==
    /\ pc = "start"
    /\ IF inner(area).width < 2
       THEN /\ pc' = "done"
            /\ UNCHANGED <<buf, painted>>
       ELSE /\ buf' = Paint(buf, [c \in BorderCells(area) |-> "border"])
            /\ painted' = painted \cup Log("frame", BorderCells(area))
            /\ pc' = "bar"
    /\ UNCHANGED <<area, current_date, day_iters, labelled>>
    /\ UNCHANGED NotRender

\* The timeline bar on the row inner.y.
RenderBar ==
    /\ pc = "bar"
    /\ LET inn == inner(area)
           timeline_display == get_timeline_display(widget, inn.width)
           writes == [c \in {<<inn.x + i, inn.y>> : i \in 0..(inn.width - 1)}
                        |-> timeline_display[c[1] - inn.x + 1]]
       IN  /\ buf' = Paint(buf, writes)
           /\ painted' = painted \cup Log("bar", DOMAIN writes)
    /\ pc' = "now"
    /\ UNCHANGED <<area, current_date, day_iters, labelled>>
    /\ UNCHANGED NotRender

\* The now line.
RenderNow ==
    /\ pc = "now"
    /\ LET inn == inner(area)
           now_pos == time_to_position(widget, widget.current_time, inn.width)
           writes == IF now_pos < inn.width
                     THEN [c \in {<<inn.x + now_pos, inn.y>>} |-> "now_line"]
                     ELSE <<>>
       IN  /\ buf' = Paint(buf, writes)
           /\ painted' = painted \cup Log("now", DOMAIN writes)
    /\ pc' = "scrub"
    /\ UNCHANGED <<area, current_date, day_iters, labelled>>
    /\ UNCHANGED NotRender

\* Mutant: the scrub line is drawn even on the now line's column.
RenderScrubAlways ==
    /\ pc = "scrub"
    /\ LET inn == inner(area)
           timeline_pos == time_to_position(widget, widget.timeline_position, inn.width)
           writes == IF timeline_pos < inn.width
                     THEN [c \in {<<inn.x + timeline_pos, inn.y>>} |-> "scrub_line"]
                     ELSE <<>>
       IN  /\ buf' = Paint(buf, writes)
           /\ painted' = painted \cup Log("scrub", DOMAIN writes)
    /\ pc' = "dst"
    /\ UNCHANGED <<area, current_date, day_iters, labelled>>
    /\ UNCHANGED <<widget, width, display, pos_prev, pos_last, scan, transitions, label>>

\* The scrub line, unless it falls on the now line.
RenderScrub ==
    /\ pc = "scrub"
    /\ LET inn == inner(area)
           now_pos == time_to_position(widget, widget.current_time, inn.width)
           timeline_pos == time_to_position(widget, widget.timeline_position, inn.width)
           writes == IF timeline_pos < inn.width /\ timeline_pos # now_pos
                     THEN [c \in {<<inn.x + timeline_pos, inn.y>>} |-> "scrub_line"]
                     ELSE <<>>
       IN  /\ buf' = Paint(buf, writes)
           /\ painted' = painted \cup Log("scrub", DOMAIN writes)
    /\ pc' = "dst"
    /\ UNCHANGED <<area, current_date, day_iters, labelled>>
    /\ UNCHANGED NotRender

\* The DST indicators, in the order of the scan: a later one overwrites an
\* earlier one on the same column.
RenderDst ==
    /\ pc = "dst"
    /\ LET inn == inner(area)
           dst_transitions == IF widget.show_dst
                              THEN get_dst_transitions_in_range(widget) ELSE <<>>
           dst_pos(i) == time_to_position(widget, dst_transitions[i].time, inn.width)
           shown == {i \in 1..Len(dst_transitions) : dst_pos(i) < inn.width}
           symbol(i) == IF dst_transitions[i].kind = "SpringForward" THEN "spring_forward" ELSE "fall_back"
           writes == [c \in {<<inn.x + dst_pos(i), inn.y>> : i \in shown} |->
                        symbol(CHOOSE i \in shown :
                                  /\ inn.x + dst_pos(i) = c[1]
                                  /\ \A j \in shown : inn.x + dst_pos(j) = c[1] => j <= i)]
       IN  /\ buf' = Paint(buf, writes)
           /\ painted' = painted \cup Log("dst", DOMAIN writes)
    /\ pc' = "date"
    /\ UNCHANGED <<area, current_date, day_iters, labelled>>
    /\ UNCHANGED NotRender

\* Mutant: the date loop runs one day past the local date of the window's end.
DayLoopPastEnd(w, date) == date <= date_naive(w.timezone, get_timeline_end(w)) + 1

\* while current_date <= local_end.date_naive()
DayLoopContinues(w, date) == date <= date_naive(w.timezone, get_timeline_end(w))

\* The date loop is entered at the local date of the window's start.
RenderDateInit ==
    /\ pc = "date"
    /\ IF widget.show_date
       THEN /\ current_date' = date_naive(widget.timezone, get_timeline_start(widget))
            /\ pc' = "day"
       ELSE /\ pc' = "caption"
            /\ UNCHANGED current_date
    /\ UNCHANGED <<area, buf, painted, day_iters, labelled>>
    /\ UNCHANGED NotRender

\* One iteration of the date loop: the label of current_date.
RenderDay ==
    /\ pc = "day"
    /\ DayLoopContinues(widget, current_date)
    /\ LET inn == inner(area)
           work_middle_hour == (widget.time_config.work_hours_start
                                   + widget.time_config.work_hours_end) \div 2
           work_middle_local == current_date * DaySecs + work_middle_hour * HourSecs
           resolved == IF work_middle_hour <= 23
                       THEN from_local_datetime(widget.timezone, work_middle_local)
                       ELSE {}
       IN  IF Cardinality(resolved) = 1
           THEN LET work_middle_utc == CHOOSE u \in resolved : TRUE
                    date_pos == time_to_position(widget, work_middle_utc, inn.width)
                    writes == IF date_pos < inn.width
                              THEN LabelWrites(inn, inn.y, DateStr(current_date), date_pos)
                              ELSE <<>>
                IN  /\ buf' = Paint(buf, writes)
                    /\ painted' = painted \cup Log("date", DOMAIN writes)
                    /\ labelled' = IF date_pos < inn.width
                                   THEN labelled \cup {[day |-> current_date,
                                                        utc |-> work_middle_utc,
                                                        pos |-> date_pos]}
                                   ELSE labelled
           ELSE UNCHANGED <<buf, painted, labelled>>
    /\ current_date' = current_date + 1
    /\ day_iters' = day_iters + 1
    /\ UNCHANGED <<area, pc>>
    /\ UNCHANGED NotRender

\* The date loop ends past the local date of the window's end.
RenderDayExit ==
    /\ pc = "day"
    /\ ~DayLoopContinues(widget, current_date)
    /\ pc' = "caption"
    /\ UNCHANGED <<area, buf, painted, current_date, day_iters, labelled>>
    /\ UNCHANGED NotRender

\* The time under the scrub position, when there is a second row.
RenderCaption ==
    /\ pc = "caption"
    /\ LET inn == inner(area)
           zone_time == LocalSecs(widget.timezone, widget.timeline_position)
           time_str == TimeStr(widget.display_format, zone_time)
           timeline_pos == time_to_position(widget, widget.timeline_position, inn.width)
           writes == IF inn.height > 1
                     THEN LabelWrites(inn, inn.y + 1, time_str, timeline_pos)
                     ELSE <<>>
       IN  /\ buf' = Paint(buf, writes)
           /\ painted' = painted \cup Log("caption", DOMAIN writes)
    /\ pc' = "done"
    /\ UNCHANGED <<area, current_date, day_iters, labelled>>
    /\ UNCHANGED NotRender

MaxAreaWidth == 7
MaxAreaHeight == 4
WideAreaWidth == 100 + 2

EarlyConfig ==
    [work_hours_start |-> 0, work_hours_end |-> 3,
     awake_hours_start |-> 6, awake_hours_end |-> 22]

\* Zone, scrub position and configuration: noon and 13:00 UTC; New York half
\* an hour before its clocks change in March and 21.5 hours after (a window
\* that starts at 23:30 local), and half an hour before they change in
\* November with work hours whose middle is the repeated hour; Apia half an
\* hour before its skipped day.
RenderCases ==
    { [zone |-> "UTC", tp |-> Noon2024, cfg |-> DefaultConfig],
      [zone |-> "UTC", tp |-> Noon2024 + HourSecs, cfg |-> DefaultConfig],
      [zone |-> "America/New_York", tp |-> 1710054000 - HalfHourSecs, cfg |-> DefaultConfig],
      [zone |-> "America/New_York", tp |-> 1710054000 + 43 * HalfHourSecs, cfg |-> DefaultConfig],
      [zone |-> "America/New_York", tp |-> 1730613600 - HalfHourSecs, cfg |-> EarlyConfig],
      [zone |-> "Pacific/Apia", tp |-> 1325239200 - HalfHourSecs, cfg |-> DefaultConfig] }

\* The clock: at the scrub position, three hours before it, outside the window.
ClockOffsets == {0, -3 * HourSecs, 30 * HourSecs}

Areas ==
    {[x |-> 2, y |-> 1, width |-> w, height |-> h] :
        w \in 0..MaxAreaWidth \cup {WideAreaWidth}, h \in 0..MaxAreaHeight}

InitRender ==
    /\ \E k \in RenderCases : \E d \in ClockOffsets :
       \E f \in {"TwentyFourHour", "TwelveHour"} : \E sd \in BOOLEAN : \E ss \in BOOLEAN :
          widget = new(k.tp, k.tp + d, k.zone, f, k.cfg, sd, ss)
    /\ width = 0
    /\ display = <<>>
    /\ pos_prev = NoCall /\ pos_last = NoCall
    /\ scan = "idle" /\ transitions = <<>>
    /\ label = NoLabel
    /\ area \in Areas
    /\ buf = [c \in CellsOf(area) |-> " "]
    /\ pc = "start"
    /\ painted = {}
    /\ current_date = 0 /\ day_iters = 0 /\ labelled = {}

NextRender ==
    \/ RenderFrame
    \/ RenderBar
    \/ RenderNow
    \/ RenderScrub
    \/ RenderDst
    \/ RenderDateInit
    \/ RenderDay
    \/ RenderDayExit
    \/ RenderCaption

Spec == InitRender /\ [][NextRender]_vars

(***************************************************************************)
(* Properties                                                              *)
(***************************************************************************)
Called == pos_last # NoCall
CalledTwice == pos_prev # NoCall

\* C1: for every width W >= 1, time_to_position is monotonic non-decreasing in
\* its time argument (instants outside the window included) and returns a
\* column in [0, W-1]; the window is [timeline_position - 24h,
\* timeline_position + 24h] whatever current_time is: instants at or before its
\* start map to column 0, instants at or after its end to column W-1, and
\* timeline_position maps to column 50 of 100.
C1_PositionMonotoneInRange ==
    /\ Called => pos_last.pos \in 0..(width - 1)
    /\ CalledTwice /\ pos_prev.time <= pos_last.time => pos_prev.pos <= pos_last.pos
    /\ CalledTwice /\ pos_last.time <= pos_prev.time => pos_last.pos <= pos_prev.pos
    /\ Called /\ pos_last.time <= widget.timeline_position - 24 * HourSecs
          => pos_last.pos = 0
    /\ Called /\ pos_last.time >= widget.timeline_position + 24 * HourSecs
          => pos_last.pos = width - 1
    /\ Called /\ pos_last.time = widget.timeline_position /\ width = 100
          => pos_last.pos = 50

\* C1's case: with the clock away from the scrub position, an instant before
\* the window was mapped and then the scrub position itself, onto 100 columns.
C1_Witness ==
    /\ width = 100
    /\ widget.current_time # widget.timeline_position
    /\ CalledTwice
    /\ pos_prev.time < get_timeline_start(widget)
    /\ pos_last.time = widget.timeline_position
    /\ pos_last.pos = 50

Scanned == scan = "done"
Entries == 1..Len(transitions)
\* The instants the scan samples: window_start + k hours below window_end.
Samples == {get_timeline_start(widget) + k * HourSecs : k \in 0..(TotalHours - 1)}

\* C2: every entry the DST scan returns has window_start <= instant <
\* window_end, its instant is window_start plus a whole number of hours, the
\* entries are in strictly increasing order of instant, and each transition is
\* one of SpringForward and FallBack.
C2_ScanEntriesInWindow ==
    Scanned =>
        \A i \in Entries :
            /\ get_timeline_start(widget) <= transitions[i].time
            /\ transitions[i].time < get_timeline_end(widget)
            /\ (transitions[i].time - get_timeline_start(widget)) % HourSecs = 0
            /\ transitions[i].kind \in {"SpringForward", "FallBack"}
            /\ i > 1 => transitions[i - 1].time < transitions[i].time

\* C2's case: the scan found a transition at the last sample of the window.
C2_Witness ==
    /\ Scanned
    /\ Len(transitions) >= 1
    /\ transitions[Len(transitions)].time = get_timeline_end(widget) - HourSecs

\* C3: the detector reports FallBack exactly where the zone's wall clock
\* (UTC plus offset) is set back within the following hour, and SpringForward
\* exactly where the wall clock jumps ahead.
C3_KindMatchesWallClock ==
    Scanned =>
        \A i \in Entries :
            LET s == transitions[i].time
                advance == LocalSecs(widget.timezone, s + HourSecs)
                              - LocalSecs(widget.timezone, s)
            IN  /\ transitions[i].kind = "FallBack" <=> advance < HourSecs
                /\ transitions[i].kind = "SpringForward" <=> advance > HourSecs

\* The offset changes of the zone that take effect in (window_start, window_end].
ChangesInWindow ==
    {i \in 1..Len(ZoneChanges(widget.timezone)) :
        /\ get_timeline_start(widget) < ZoneChanges(widget.timezone)[i].at
        /\ ZoneChanges(widget.timezone)[i].at <= get_timeline_end(widget)}

\* C7: the scan returns an entry at a sample s if and only if the zone's offset
\* at s + 1h differs from its offset at s; a fixed-offset zone yields an empty
\* sequence; every offset change taking effect at T with window_start < T <=
\* window_end yields exactly one entry, at the sample s with s < T <= s + 1h.
C7_ScanFindsEveryChange ==
    Scanned =>
        /\ \A s \in Samples :
              (\E i \in Entries : transitions[i].time = s)
                 <=> TzOffset(widget.timezone, s + HourSecs) # TzOffset(widget.timezone, s)
        /\ \A i \in Entries : transitions[i].time \in Samples
        /\ Len(ZoneChanges(widget.timezone)) = 0 => transitions = <<>>
        /\ \A c \in ChangesInWindow :
              LET T == ZoneChanges(widget.timezone)[c].at
              IN  Cardinality({i \in Entries :
                                  transitions[i].time < T /\ T <= transitions[i].time + HourSecs}) = 1
        /\ Len(transitions) = Cardinality(ChangesInWindow)

\* C7's case: an offset change strictly between two samples was found.
C7_Witness ==
    /\ Scanned
    /\ Len(transitions) = 1
    /\ \E c \in ChangesInWindow :
          /\ (ZoneChanges(widget.timezone)[c].at - get_timeline_start(widget)) % HourSecs # 0
          /\ transitions[1].time < ZoneChanges(widget.timezone)[c].at
          /\ transitions[1].kind = "SpringForward"

Placed == label.w > 0

\* C4: for a label of L characters anchored at column c of a track of W
\* columns, with L <= W the start column satisfies 0 <= start and start + L - 1
\* <= W - 1 and every character is written; with L > W the start is 0 and only
\* the first W characters are written.
C4_LabelInsideTrack ==
    Placed =>
        /\ label.len <= label.w =>
              /\ 0 <= label.start
              /\ label.start + label.len - 1 <= label.w - 1
              /\ label.cells = 0..(label.len - 1)
        /\ label.len > label.w =>
              /\ label.start = 0
              /\ label.cells = 0..(label.w - 1)

\* C4's case: a label that fits, centred past the right edge and pulled back.
C4_Witness ==
    /\ Placed
    /\ label.len >= 2 /\ label.len < label.w
    /\ label.c - label.len \div 2 > label.w - label.len
    /\ label.start = label.w - label.len

Displayed == display # <<>>

\* The column -> instant -> column round trip of column c.
RoundTrip(c) ==
    LET t == ColumnTime(widget, c, width)
        p == time_to_position(widget, t, width)
    IN  /\ p = c
        /\ display[p + 1] = get_hour_display(widget, LocalHour(widget.timezone, t))

\* C9 as stated: for every width and every column c in [0, W), the instant
\* get_timeline_display classifies at column c is mapped back to column c by
\* time_to_position.
C9_RoundTripEveryWidth == Displayed => \A c \in 0..(width - 1) : RoundTrip(c)

\* C9 amended: the same for every width W in [1, 1439].
C9_RoundTripBelow1440 ==
    Displayed /\ width < 1440 => \A c \in 0..(width - 1) : RoundTrip(c)

\* C9's case: the display of the widest track the round trip holds for.
C9_Witness == Displayed /\ width = 1439 /\ Len(display) = 1439

Rendered == pc = "done" /\ inner(area).width >= 2
Inn == inner(area)
NowPos == time_to_position(widget, widget.current_time, Inn.width)
ScrubPos == time_to_position(widget, widget.timeline_position, Inn.width)
PaintedBy(pass) == {p \in painted : p.pass = pass}
\* The finished row 0 of the inner rectangle, by column.
Row0(col) == buf[<<Inn.x + col, Inn.y>>]

\* The scrub line is painted if and only if the two markers' columns differ.
ScrubIffApart == (PaintedBy("scrub") # {}) <=> (ScrubPos # NowPos)

\* C5 as stated: in every render with inner width W >= 2 the scrub line is
\* painted if and only if time_to_position(timeline_position, W) differs from
\* time_to_position(current_time, W); with timeline_position = current_time and
\* W = 100 both map to column 50, and the finished row 0 holds the now line at
\* column 50 and no scrub line anywhere.
C5_NowLineStaysAtMidpoint ==
    Rendered =>
        /\ ScrubIffApart
        /\ widget.timeline_position = widget.current_time /\ Inn.width = 100 =>
              /\ NowPos = 50 /\ ScrubPos = 50
              /\ Row0(50) = "now_line"
              /\ \A col \in 0..99 : Row0(col) # "scrub_line"

\* C5 amended: the same, except that column 50 of the finished row 0 holds the
\* now line unless a DST indicator or a date label was painted over it
\* (which happens only with show_dst or show_date set).
C5_NowLineUnlessOverlaid ==
    Rendered =>
        /\ ScrubIffApart
        /\ widget.timeline_position = widget.current_time /\ Inn.width = 100 =>
              /\ NowPos = 50 /\ ScrubPos = 50
              /\ \/ Row0(50) = "now_line"
                 \/ \E p \in PaintedBy("dst") \cup PaintedBy("date") :
                       p.x = Inn.x + 50 /\ p.y = Inn.y
              /\ ~widget.show_dst /\ ~widget.show_date => Row0(50) = "now_line"
              /\ \A col \in 0..99 : Row0(col) # "scrub_line"

\* C5's case: scrub position and clock coincide on 100 columns, date labels
\* are painted elsewhere on the row, and the now line stands at column 50.
C5_Witness ==
    /\ Rendered
    /\ widget.timeline_position = widget.current_time /\ Inn.width = 100
    /\ PaintedBy("date") # {}
    /\ PaintedBy("scrub") = {}
    /\ Row0(50) = "now_line"

\* The local calendar dates from that of window_start to that of window_end.
LocalDates ==
    date_naive(widget.timezone, get_timeline_start(widget))
        ..date_naive(widget.timezone, get_timeline_end(widget))

\* C6 as stated: for every timezone and timeline_position the date loop ends
\* after at most 3 iterations.
C6_AtMostThreeDays == day_iters <= 3

\* C6 amended: the loop runs once per local date of the window and ends after
\* at most 4 iterations, and after at most 3 when the zone's offset at
\* window_end does not exceed its offset at window_start.
C6_AtMostFourDays ==
    /\ day_iters <= 4
    /\ TzOffset(widget.timezone, get_timeline_end(widget))
          <= TzOffset(widget.timezone, get_timeline_start(widget)) => day_iters <= 3
    /\ Rendered /\ widget.show_date => day_iters = Cardinality(LocalDates)

\* C6's case: a finished render whose date loop ran four times.
C6_Witness == Rendered /\ widget.show_date /\ day_iters = 4

\* C8: a date label is rendered only if its day's work-midpoint instant lies
\* within the window [window_start, window_end].
C8_LabelOnlyInsideWindow ==
    \A l \in labelled :
        /\ get_timeline_start(widget) <= l.utc
        /\ l.utc <= get_timeline_end(widget)

\* C10: every cell written by the passes other than the frame lies inside the
\* inner rectangle; the timeline row is written only when the inner height is
\* at least 1, the caption row only when it is at least 2, and nothing at all
\* is drawn when the inner width is below 2.
C10_WritesInsideInner ==
    /\ \A p \in painted :
          p.pass # "frame" =>
              /\ Inn.x <= p.x /\ p.x < Inn.x + Inn.width
              /\ Inn.y <= p.y /\ p.y < Inn.y + Inn.height
    /\ PaintedBy("bar") # {} => Inn.height >= 1
    /\ PaintedBy("caption") # {} => Inn.height >= 2
    /\ Inn.width < 2 => painted = {}

=============================================================================
